---- MODULE Spec2Model ----
(***************************************************************************)
(* Verification model of the JoyFood Gmail table extractor.                *)
(*                                                                         *)
(* Strings are sequences of one-character strings.  The three Korean date  *)
(* markers of the subject patterns are written                             *)
(*     Nyeon = U+B144 (year marker), Wol = U+C6D4 (month marker),          *)
(*     Il = U+C77C (day marker).                                           *)
(* An optional value (Python's Optional[...]) is a record with a kind:     *)
(* "str" (a string), "None" (absent) or "raise" (an exception escaped).    *)
(***************************************************************************)
EXTENDS Integers, Sequences, FiniteSets, TLC

VARIABLES
    pc,            \* position of the driver: "build" (inputs being assembled) or "done"
    current_year,  \* datetime.now().year, the ambient calendar year
    subject,       \* argument of parse_date_from_subject
    nsegs,         \* number of segments the subject was assembled from
    parsed,        \* value returned by parse_date_from_subject(subject)
    messages_data, \* argument of find_message_by_date / find_latest_message
    target_date,   \* argument of find_message_by_date
    last_call,     \* which selector ran: "none", "by_date" or "latest"
    selected,      \* value returned by the selector
    first_selected, \* value an earlier call with the same arguments returned
    data_tables,   \* the "tables" property of the JSON document given to the converter
    writer,        \* the pd.ExcelWriter: "none" (never opened), "open" or "closed"
    sheets,        \* the sheets written to the workbook, in order
    col_counts,    \* num_cols of each table processed, in order
    excel_result,  \* outcome of json_tables_to_excel: returned, or the exception raised
    message_id,    \* config.message_id: a message to fetch directly, or None
    email_extractor, \* self.email_extractor is set
    gemini_client, \* self.gemini_client is set
    email_data,    \* the EmailData extract_email_data returned
    file_paths,    \* html_file of run and the FilePaths of process_tables
    stage_log,     \* the steps of run started so far, each with its outcome
    run_result,    \* what run returned to its caller
    environ,       \* os.environ as main finds it
    config,        \* the Config main loaded, or None
    main_log,      \* the startup steps of main taken so far, each with its outcome
    exit_status,   \* the status the process ended with, or None while it runs
    filename,      \* argument of clean_filename
    cleaned,       \* value returned by clean_filename(filename)
    playwright,    \* the sync_playwright session: "none", "started" or "stopped"
    browser,       \* the Chromium browser: "none", "launched", "closed" or "ended"
    capture_result \* outcome of capture_html_to_png: returned, or the exception raised

parse_vars == <<subject, nsegs, parsed>>
select_vars == <<messages_data, target_date, last_call, selected, first_selected>>
excel_vars == <<data_tables, writer, sheets, col_counts, excel_result>>
run_vars == <<message_id, email_extractor, gemini_client, email_data, file_paths,
              stage_log, run_result>>

main_vars == <<environ, config, main_log, exit_status>>
clean_vars == <<filename, cleaned>>
capture_vars == <<playwright, browser, capture_result>>
vars == <<pc, current_year, parse_vars, select_vars, excel_vars, run_vars, main_vars,
          clean_vars, capture_vars>>

----------------------------------------------------------------------------
(* Bounds of the model *)

MaxSegs == 3
MaxMsgs == 3
MaxTables == 2
MaxRows == 2
MaxName == 4

----------------------------------------------------------------------------
(* Characters and strings *)

Nyeon == "Y"
Wol == "M"
Il == "D"

DigitChars == <<"0", "1", "2", "3", "4", "5", "6", "7", "8", "9">>

IsDigit(c) == \E i \in 1..10 : DigitChars[i] = c

DigitVal(c) == (CHOOSE i \in 1..10 : DigitChars[i] = c) - 1

\* Unicode code point of a character of the model's alphabet (str comparison
\* in Python is by code point).
CharCode(c) ==
    IF IsDigit(c) THEN 48 + DigitVal(c)
    ELSE IF c = " " THEN 32
    ELSE IF c = "_" THEN 95
    ELSE IF c = Nyeon THEN 45380
    ELSE IF c = Wol THEN 50900
    ELSE IF c = Il THEN 51068
    ELSE 120

\* s[i], or the empty string beyond the ends of s
CharAt(s, i) == IF i >= 1 /\ i <= Len(s) THEN s[i] ELSE ""

IsDigitAt(s, i) == i >= 1 /\ i <= Len(s) /\ IsDigit(s[i])

Some(v) == [kind |-> "str", val |-> v]
None == [kind |-> "None", val |-> <<>>]
Raised(e) == [kind |-> "raise", val |-> <<e>>]
Unset == [kind |-> "unset", val |-> <<>>]

RECURSIVE StrToInt(_)
\* int(s) for a string of decimal digits
StrToInt(s) ==
    IF s = <<>> THEN 0
    ELSE 10 * StrToInt(SubSeq(s, 1, Len(s) - 1)) + DigitVal(s[Len(s)])

RECURSIVE IntToStr(_)
\* f"{n}" for an integer n >= 0
IntToStr(n) ==
    IF n < 10 THEN <<DigitChars[n + 1]>>
    ELSE IntToStr(n \div 10) \o <<DigitChars[(n % 10) + 1]>>

\* zfill forgotten: the digits as written
zfill_absent(s, width) == s

\* str.zfill(width) on a string of digits
zfill(s, width) ==
    IF Len(s) >= width THEN s
    ELSE [i \in 1..(width - Len(s)) |-> "0"] \o s

----------------------------------------------------------------------------
(* Regular-expression matching, as re.search does it: the leftmost start     *)
(* position at which the pattern matches; counted groups are greedy.        *)

NoMatch == [found |-> FALSE, start |-> 0, groups |-> <<>>]

\* (\d{1,2})<marker> tried at position i: the number of digits taken (two
\* are tried before one), or 0 when it does not match there
digits12_then(s, i, marker) ==
    IF IsDigitAt(s, i) /\ IsDigitAt(s, i + 1) /\ CharAt(s, i + 2) = marker THEN 2
    ELSE IF IsDigitAt(s, i) /\ CharAt(s, i + 1) = marker THEN 1
    ELSE 0

\* pattern3 = (\d{1,2})Wol(\d{1,2})Il tried at position i
pattern3_at(s, i) ==
    LET m == digits12_then(s, i, Wol)
        d == digits12_then(s, i + m + 1, Il)
    IN  IF m > 0 /\ d > 0
        THEN [found |-> TRUE, start |-> i,
              groups |-> <<SubSeq(s, i, i + m - 1),
                           SubSeq(s, i + m + 1, i + m + d)>>]
        ELSE NoMatch

\* pattern1 = (\d{4})Nyeon(\d{1,2})Wol(\d{1,2})Il tried at position i
pattern1_at(s, i) ==
    LET md == pattern3_at(s, i + 5)
    IN  IF /\ \A k \in 0..3 : IsDigitAt(s, i + k)
           /\ CharAt(s, i + 4) = Nyeon
           /\ md.found
        THEN [found |-> TRUE, start |-> i,
              groups |-> <<SubSeq(s, i, i + 3)>> \o md.groups]
        ELSE NoMatch

\* pattern2 = (\d{8}) tried at position i
pattern2_at(s, i) ==
    IF \A k \in 0..7 : IsDigitAt(s, i + k)
    THEN [found |-> TRUE, start |-> i, groups |-> <<SubSeq(s, i, i + 7)>>]
    ELSE NoMatch

RECURSIVE search1(_, _)
search1(s, i) ==
    IF i > Len(s) THEN NoMatch
    ELSE IF pattern1_at(s, i).found THEN pattern1_at(s, i)
    ELSE search1(s, i + 1)

\* re.match in place of re.search: the pattern is tried at the start only
search2_anchored(s, i) == pattern2_at(s, i)

RECURSIVE search2(_, _)
search2(s, i) ==
    IF i > Len(s) THEN NoMatch
    ELSE IF pattern2_at(s, i).found THEN pattern2_at(s, i)
    ELSE search2(s, i + 1)

RECURSIVE search3(_, _)
search3(s, i) ==
    IF i > Len(s) THEN NoMatch
    ELSE IF pattern3_at(s, i).found THEN pattern3_at(s, i)
    ELSE search3(s, i + 1)

----------------------------------------------------------------------------
(* datetime.strptime(date_str, '%Y%m%d') on a string of eight digits *)

IsLeap(y) == (y % 4 = 0 /\ y % 100 # 0) \/ y % 400 = 0

DaysInMonth(y, m) ==
    IF m = 2 THEN (IF IsLeap(y) THEN 29 ELSE 28)
    ELSE IF m \in {4, 6, 9, 11} THEN 30
    ELSE 31

\* TRUE when strptime returns a datetime, FALSE when it raises ValueError:
\* four digits of year (1..9999), a month 01..12 and a day of that month
strptime_Ymd(date_str) ==
    LET y == StrToInt(SubSeq(date_str, 1, 4))
        m == StrToInt(SubSeq(date_str, 5, 6))
        d == StrToInt(SubSeq(date_str, 7, 8))
    IN  /\ y >= 1
        /\ m >= 1 /\ m <= 12
        /\ d >= 1 /\ d <= DaysInMonth(y, m)

----------------------------------------------------------------------------
(* parse_date_from_subject *)

\* pattern 1 block: the year-bearing date, no calendar check
pattern1_result(subj) ==
    LET match1 == search1(subj, 1)
    IN  IF match1.found
        THEN Some(match1.groups[1] \o zfill(match1.groups[2], 2)
                                   \o zfill(match1.groups[3], 2))
        ELSE None

RECURSIVE search2_valid(_, _)
\* the leftmost eight digits that strptime accepts
search2_valid(s, i) ==
    IF i > Len(s) THEN NoMatch
    ELSE IF pattern2_at(s, i).found /\ strptime_Ymd(pattern2_at(s, i).groups[1])
         THEN pattern2_at(s, i)
    ELSE search2_valid(s, i + 1)

\* pattern 2 retried on later digits after a rejected run
pattern2_result_retried(subj) ==
    LET match2 == search2_valid(subj, 1)
    IN  IF match2.found THEN Some(match2.groups[1]) ELSE None

\* pattern 2 without the except clause: the ValueError of strptime escapes
pattern2_result_uncaught(subj) ==
    LET match2 == search2(subj, 1)
    IN  IF ~match2.found THEN None
        ELSE IF strptime_Ymd(match2.groups[1]) THEN Some(match2.groups[1])
        ELSE Raised("ValueError")

\* pattern 2 block: the first eight digits, kept only when strptime accepts
\* them; the ValueError of a rejected run is caught and the block falls through
pattern2_result(subj) ==
    LET match2 == search2(subj, 1)
    IN  IF match2.found /\ strptime_Ymd(match2.groups[1])
        THEN Some(match2.groups[1])
        ELSE None

\* pattern 3 with the year written into the code
pattern3_result_fixed_year(subj, year) ==
    LET match3 == search3(subj, 1)
    IN  IF match3.found
        THEN Some(IntToStr(2025) \o zfill(match3.groups[1], 2)
                                 \o zfill(match3.groups[2], 2))
        ELSE None

\* pattern 3 block: month and day with the current year in front
pattern3_result(subj, year) ==
    LET match3 == search3(subj, 1)
    IN  IF match3.found
        THEN Some(IntToStr(year) \o zfill(match3.groups[1], 2)
                                 \o zfill(match3.groups[2], 2))
        ELSE None

\* the eight-digit pattern tried before the year-bearing one
parse_date_pattern2_first(subj, year) ==
    IF pattern2_result(subj).kind # "None" THEN pattern2_result(subj)
    ELSE IF pattern1_result(subj).kind # "None" THEN pattern1_result(subj)
    ELSE IF pattern3_result(subj, year).kind # "None" THEN pattern3_result(subj, year)
    ELSE None

parse_date_from_subject(subj, year) ==
    IF pattern1_result(subj).kind # "None" THEN pattern1_result(subj)
    ELSE IF pattern2_result(subj).kind # "None" THEN pattern2_result(subj)
    ELSE IF pattern3_result(subj, year).kind # "None" THEN pattern3_result(subj, year)
    ELSE None


----------------------------------------------------------------------------
(* Message selection.  A message is [id, subject]; a selector returns       *)
(* SomeMsg(message) or None.                                                *)

SomeMsg(m) == [kind |-> "msg", val |-> <<m>>]

RECURSIVE StrLess(_, _)
\* a < b for Python strings: by code point, a proper prefix being smaller
StrLess(a, b) ==
    IF b = <<>> THEN FALSE
    ELSE IF a = <<>> THEN TRUE
    ELSE IF CharCode(Head(a)) # CharCode(Head(b))
         THEN CharCode(Head(a)) < CharCode(Head(b))
    ELSE StrLess(Tail(a), Tail(b))

RECURSIVE find_message_by_date_last(_, _, _)
\* the loop keeps looking after a hit: the last message of the date
find_message_by_date_last(msgs, target, year) ==
    IF msgs = <<>> THEN None
    ELSE IF parse_date_from_subject(msgs[Len(msgs)].subject, year) = Some(target)
         THEN SomeMsg(msgs[Len(msgs)])
    ELSE find_message_by_date_last(SubSeq(msgs, 1, Len(msgs) - 1), target, year)

\* a selector that raises when no message has the date
find_message_by_date_raising(msgs, target, year) ==
    LET hits == {i \in 1..Len(msgs) :
                    parse_date_from_subject(msgs[i].subject, year) = Some(target)}
    IN  IF hits = {} THEN Raised("LookupError")
        ELSE SomeMsg(msgs[CHOOSE i \in hits : \A j \in hits : i <= j])

RECURSIVE find_message_by_date(_, _, _)
find_message_by_date(msgs, target, year) ==
    IF msgs = <<>> THEN None
    ELSE IF parse_date_from_subject(Head(msgs).subject, year) = Some(target)
         THEN SomeMsg(Head(msgs))
    ELSE find_message_by_date(Tail(msgs), target, year)

\* the sort key of find_latest_message: the parsed date or '00000000'
sort_key(x, year) ==
    LET d == parse_date_from_subject(x.subject, year)
    IN  IF d.kind = "None" \/ d.val = <<>>
        THEN <<"0", "0", "0", "0", "0", "0", "0", "0">>
        ELSE d.val

\* an insertion that puts x before the messages of equal key
insert_before_equal(done, x, year) ==
    LET ahead == {i \in 1..Len(done) :
                     \A j \in 1..i : StrLess(sort_key(x, year), sort_key(done[j], year))}
        n == Cardinality(ahead)
    IN  SubSeq(done, 1, n) \o <<x>> \o SubSeq(done, n + 1, Len(done))

\* one step of sorted(..., reverse=True): x goes behind every message whose
\* key is not smaller than its own, so equal keys keep their input order
insert_sorted(done, x, year) ==
    LET ahead == {i \in 1..Len(done) :
                     \A j \in 1..i : ~StrLess(sort_key(done[j], year), sort_key(x, year))}
        n == Cardinality(ahead)
    IN  SubSeq(done, 1, n) \o <<x>> \o SubSeq(done, n + 1, Len(done))

RECURSIVE sorted_reverse(_, _)
\* sorted(messages_data, key=..., reverse=True)
sorted_reverse(msgs, year) ==
    IF msgs = <<>> THEN <<>>
    ELSE insert_sorted(sorted_reverse(SubSeq(msgs, 1, Len(msgs) - 1), year),
                       msgs[Len(msgs)], year)

\* find_latest_message without its guard: indexing the empty list raises
find_latest_message_unguarded(msgs, year) ==
    IF sorted_reverse(msgs, year) = <<>> THEN Raised("IndexError")
    ELSE SomeMsg(sorted_reverse(msgs, year)[1])

\* a selector that reads the sorted list from the wrong end
find_latest_message_oldest(msgs, year) ==
    IF msgs = <<>> THEN None
    ELSE SomeMsg(sorted_reverse(msgs, year)[Len(msgs)])

\* a selector that gives up when even the best candidate has no date
find_latest_message_dated_only(msgs, year) ==
    IF msgs = <<>> THEN None
    ELSE IF sort_key(sorted_reverse(msgs, year)[1], year)
              = <<"0", "0", "0", "0", "0", "0", "0", "0">>
    THEN None
    ELSE SomeMsg(sorted_reverse(msgs, year)[1])

find_latest_message(msgs, year) ==
    IF msgs = <<>> THEN None
    ELSE SomeMsg(sorted_reverse(msgs, year)[1])

----------------------------------------------------------------------------
(* JSONToExcelConverter.  A table is [headers, rows]: headers a sequence of *)
(* strings, rows a sequence of rows, a row a sequence of cells, a cell      *)
(* Some(string) or None.  A headers or rows property that is missing or     *)
(* null reads as the empty sequence (table.get(...) or []).                 *)

\* one row brought to num_cols cells, the elif branch left out
normalize_row_pad_only(row, num_cols) ==
    IF Len(row) < num_cols
    THEN row \o [i \in 1..(num_cols - Len(row)) |-> None]
    ELSE row

\* a short row padded in front of its cells
normalize_row_pad_front(row, num_cols) ==
    IF Len(row) < num_cols
    THEN [i \in 1..(num_cols - Len(row)) |-> None] \o row
    ELSE IF Len(row) > num_cols THEN SubSeq(row, 1, num_cols)
    ELSE row

\* the body of the loop of _normalize_rows
normalize_row(row, num_cols) ==
    IF Len(row) < num_cols
    THEN row \o [i \in 1..(num_cols - Len(row)) |-> None]
    ELSE IF Len(row) > num_cols THEN SubSeq(row, 1, num_cols)
    ELSE row

_normalize_rows(rows, num_cols) ==
    [r \in 1..Len(rows) |-> normalize_row(rows[r], num_cols)]

RECURSIVE max_len(_)
\* max((len(r) for r in rows), default=0)
max_len(rows) ==
    IF rows = <<>> THEN 0
    ELSE LET rest == max_len(Tail(rows))
         IN  IF Len(Head(rows)) > rest THEN Len(Head(rows)) ELSE rest

\* the longest row first, the header count only for a table without rows
column_count_rows_first(headers, rows) ==
    IF rows # <<>> THEN max_len(rows) ELSE Len(headers)

\* num_cols taken from the longest row whether or not there are headers
column_count_longest_row(headers, rows) == max_len(rows)

\* num_cols: the header count when there are headers, else the longest row
column_count(headers, rows) ==
    IF headers # <<>> THEN Len(headers) ELSE max_len(rows)

\* the slice s[:n]
first_n(s, n) == SubSeq(s, 1, IF n < Len(s) THEN n ELSE Len(s))

\* synthesized names counted from 0: col_0 .. col_(n-1)
normalize_headers_from_zero(headers, num_cols) ==
    LET cut == IF headers # <<>> /\ Len(headers) # num_cols
               THEN first_n(headers, num_cols)
               ELSE headers
    IN  IF cut = <<>>
        THEN [i \in 1..num_cols |-> <<"c", "o", "l", "_">> \o IntToStr(i - 1)]
        ELSE cut

\* the header row of the sheet: cut to num_cols, or col_1 .. col_n when empty
normalize_headers(headers, num_cols) ==
    LET cut == IF headers # <<>> /\ Len(headers) # num_cols
               THEN first_n(headers, num_cols)
               ELSE headers
    IN  IF cut = <<>>
        THEN [i \in 1..num_cols |-> <<"c", "o", "l", "_">> \o IntToStr(i)]
        ELSE cut

\* the sheet of the idx-th table with enumerate counting from 0
table_sheet_from_zero(idx, table) ==
    LET num_cols == column_count(table.headers, table.rows)
    IN  [name |-> <<"T", "a", "b", "l", "e">> \o IntToStr(idx - 1),
         headers |-> normalize_headers(table.headers, num_cols),
         rows |-> _normalize_rows(table.rows, num_cols)]

\* the sheet df.to_excel writes for the idx-th table
table_sheet(idx, table) ==
    LET num_cols == column_count(table.headers, table.rows)
    IN  [name |-> <<"T", "a", "b", "l", "e">> \o IntToStr(idx),
         headers |-> normalize_headers(table.headers, num_cols),
         rows |-> _normalize_rows(table.rows, num_cols)]

\* tables = data.get("tables") or []
tables_or_empty(d) == IF d.kind = "missing" THEN [kind |-> "list", val |-> <<>>] ELSE d

\* the check of line 67: not a list, or an empty one
tables_rejected(d) ==
    tables_or_empty(d).kind # "list" \/ tables_or_empty(d).val = <<>>

\* what the loop over the tables leaves behind: the writer was opened, every
\* table was written to its sheet, and the with block closed the writer
write_tables(tables) ==
    [result |-> [kind |-> "ok", val |-> <<>>],
     writer |-> "closed",
     sheets |-> [i \in 1..Len(tables) |-> table_sheet(i, tables[i])],
     col_counts |-> [i \in 1..Len(tables) |->
                        column_count(tables[i].headers, tables[i].rows)]]

\* the except clause of json_tables_to_excel: every exception raised in the
\* try block, ValidationError included, leaves as FileProcessingError
reraised(exc) == Raised("FileProcessingError")

\* json_tables_to_excel with the writer opened before the document is checked
json_tables_to_excel_writer_first(d) ==
    IF tables_rejected(d)
    THEN [result |-> reraised("ValidationError"), writer |-> "closed",
          sheets |-> <<>>, col_counts |-> <<>>]
    ELSE write_tables(tables_or_empty(d).val)

\* json_tables_to_excel: the document is rejected before the writer is
\* opened, or every table is written
json_tables_to_excel(d) ==
    IF tables_rejected(d)
    THEN [result |-> reraised("ValidationError"), writer |-> "none",
          sheets |-> <<>>, col_counts |-> <<>>]
    ELSE write_tables(tables_or_empty(d).val)

----------------------------------------------------------------------------
(* Inputs *)

\* calendar years the clock may show at call time
Years == {2024, 2025, 2026}

\* pieces a subject line is assembled from
Segments == {
    <<"2", "0", "2", "5", Nyeon, "9", Wol, "4", Il>>,
    <<"2", "0", "2", "5", Nyeon, "1", "3", Wol, "4", "5", Il>>,
    <<"2", "0", "2", "5", "0", "9", "0", "2">>,
    <<"2", "0", "2", "5", "1", "3", "0", "5">>,
    <<"2", "0", "2", "5", "0", "2", "2", "9">>,
    <<"9", Wol, "5", Il>>,
    <<"1">>,
    <<" ">>,
    <<"x">> }

\* subjects of the listed messages
\* the two subjects of the reporting scenario, "... 보고" romanized
ScenarioSubjectA ==
    <<"2", "0", "2", "5", Nyeon, "0", "9", Wol, "0", "4", Il, " ", "b", "o", "g", "o">>

ScenarioSubjectB ==
    <<"0", "9", Wol, "0", "5", Il, " ", "b", "o", "g", "o">>

SelectSubjects == {
    ScenarioSubjectA,
    ScenarioSubjectB,
    <<"2", "0", "2", "5", Nyeon, "0", "9", Wol, "0", "4", Il>>,
    <<"2", "0", "2", "5", "0", "9", "0", "5">>,
    <<"9", Wol, "5", Il>>,
    <<"x">> }

\* dates a caller asks for
TargetDates == {
    <<"2", "0", "2", "5", "0", "9", "0", "4">>,
    <<"2", "0", "2", "5", "0", "9", "0", "5">>,
    <<"2", "0", "2", "6", "0", "9", "0", "5">>,
    <<"0", "0", "0", "0", "0", "0", "0", "0">> }

\* header rows of the inferred tables
HeaderChoices == {<<>>, <<<<"a">>>>, <<<<"a">>, <<"b">>>>}

\* rows of the inferred tables
RowChoices == {
    <<Some(<<"1">>)>>,
    <<Some(<<"2">>), None, Some(<<"4">>)>> }

ParseIdle == subject = <<>> /\ nsegs = 0 /\ parsed = Unset

SelectIdle ==
    /\ messages_data = <<>>
    /\ target_date = None
    /\ last_call = "none"
    /\ selected = Unset
    /\ first_selected = Unset

ExcelIdle ==
    /\ data_tables = [kind |-> "missing", val |-> <<>>]
    /\ writer = "none"
    /\ sheets = <<>>
    /\ col_counts = <<>>
    /\ excel_result = Unset

\* clean_filename has not been called
CleanIdle == filename = <<>> /\ cleaned = Unset

CaptureIdle == playwright = "none" /\ browser = "none" /\ capture_result = Unset

\* os.environ with none of the variables of Config.from_env set
NoEnviron == [MAX_RESULTS |-> None, DEVICE_SCALE_FACTOR |-> None, LOG_LEVEL |-> None,
              MESSAGE_ID |-> None, TARGET_DATE |-> None]

\* main has not been started
MainIdle ==
    /\ environ = NoEnviron
    /\ config = None
    /\ main_log = <<>>
    /\ exit_status = None

\* GmailTableExtractor.__init__: nothing authenticated, fetched or written
NoFiles == [html_file |-> None, png_file |-> None, json_file |-> None,
            excel_file |-> None]

RunIdle ==
    /\ message_id = None
    /\ email_extractor = FALSE
    /\ gemini_client = FALSE
    /\ email_data = None
    /\ file_paths = NoFiles
    /\ stage_log = <<>>
    /\ run_result = Unset

----------------------------------------------------------------------------
(* Subject parsing: a subject is assembled, then parsed once *)

InitParse ==
    /\ pc = "build"
    /\ current_year \in Years
    /\ ParseIdle
    /\ SelectIdle
    /\ ExcelIdle
    /\ RunIdle
    /\ MainIdle
    /\ CleanIdle
    /\ CaptureIdle

AppendSegment(seg) ==
    /\ pc = "build"
    /\ nsegs < MaxSegs
    /\ subject' = subject \o seg
    /\ nsegs' = nsegs + 1
    /\ UNCHANGED <<pc, current_year, parsed, select_vars, excel_vars, run_vars,
                   main_vars, clean_vars,
                   capture_vars>>

ParseSubject ==
    /\ pc = "build"
    /\ parsed' = parse_date_from_subject(subject, current_year)
    /\ pc' = "done"
    /\ UNCHANGED <<current_year, subject, nsegs, select_vars, excel_vars, run_vars,
                   main_vars, clean_vars,
                   capture_vars>>

NextParse ==
    \/ \E seg \in Segments : AppendSegment(seg)
    \/ ParseSubject

SpecParse == InitParse /\ [][NextParse]_vars


----------------------------------------------------------------------------
(* Properties of subject parsing.  The predicates below describe a subject  *)
(* by its substrings, independently of the matching operators above.        *)

AllDigits(s) == \A k \in 1..Len(s) : IsDigit(s[k])

\* s[i..] begins with ml digits, Wol, dl digits, Il
MonthDayAt(s, i, ml, dl) ==
    /\ i >= 1
    /\ i + ml + dl + 1 <= Len(s)
    /\ AllDigits(SubSeq(s, i, i + ml - 1))
    /\ s[i + ml] = Wol
    /\ AllDigits(SubSeq(s, i + ml + 1, i + ml + dl))
    /\ s[i + ml + dl + 1] = Il

\* s[i..] begins with four digits, Nyeon, ml digits, Wol, dl digits, Il
YearDateAt(s, i, ml, dl) ==
    /\ i >= 1
    /\ i + 4 <= Len(s)
    /\ AllDigits(SubSeq(s, i, i + 3))
    /\ s[i + 4] = Nyeon
    /\ MonthDayAt(s, i + 5, ml, dl)

Pad2(s) == IF Len(s) = 1 THEN <<"0">> \o s ELSE s

\* the month and day written at i, each padded to two digits
MonthDayText(s, i, ml, dl) ==
    Pad2(SubSeq(s, i, i + ml - 1)) \o Pad2(SubSeq(s, i + ml + 1, i + ml + dl))

YearDateStarts(s) ==
    {i \in 1..Len(s) : \E ml \in {1, 2}, dl \in {1, 2} : YearDateAt(s, i, ml, dl)}

MonthDayStarts(s) ==
    {i \in 1..Len(s) : \E ml \in {1, 2}, dl \in {1, 2} : MonthDayAt(s, i, ml, dl)}

\* start positions of eight consecutive digits
WindowStarts(s) ==
    {i \in 1..Len(s) : i + 7 <= Len(s) /\ AllDigits(SubSeq(s, i, i + 7))}

Window(s, i) == SubSeq(s, i, i + 7)

Least(S) == CHOOSE i \in S : \A j \in S : i <= j

MonthLengths == <<31, 28, 31, 30, 31, 30, 31, 31, 30, 31, 30, 31>>

\* an eight-digit string that is a date of the proleptic Gregorian calendar
CalendarValid(w) ==
    LET y == StrToInt(SubSeq(w, 1, 4))
        m == StrToInt(SubSeq(w, 5, 6))
        d == StrToInt(SubSeq(w, 7, 8))
        leap == (y % 4 = 0) /\ ((y % 100 # 0) \/ (y % 400 = 0))
    IN  /\ y \in 1..9999
        /\ m \in 1..12
        /\ d >= 1
        /\ d <= (IF m = 2 /\ leap THEN 29 ELSE MonthLengths[m])

ValidWindowStarts(s) == {i \in WindowStarts(s) : CalendarValid(Window(s, i))}

\* the date the first year-bearing occurrence of s writes
FirstYearDate(s) ==
    LET i == Least(YearDateStarts(s))
        ml == CHOOSE a \in {1, 2} : \E b \in {1, 2} : YearDateAt(s, i, a, b)
        dl == CHOOSE b \in {1, 2} : YearDateAt(s, i, ml, b)
    IN  SubSeq(s, i, i + 3) \o MonthDayText(s, i + 5, ml, dl)

\* the month and day the first year-less occurrence of s writes
FirstMonthDay(s) ==
    LET i == Least(MonthDayStarts(s))
        ml == CHOOSE a \in {1, 2} : \E b \in {1, 2} : MonthDayAt(s, i, a, b)
        dl == CHOOSE b \in {1, 2} : MonthDayAt(s, i, ml, b)
    IN  MonthDayText(s, i, ml, dl)

\* pattern 2 has a result: the first eight consecutive digits are a valid date
FirstWindowValid(s) ==
    WindowStarts(s) # {} /\ CalendarValid(Window(s, Least(WindowStarts(s))))

Parsed == pc = "done" /\ parsed.kind # "unset"

\* C4: a subject containing <Y>Nyeon<M>Wol<D>Il parses to Y, M and D of the
\* first such occurrence, M and D zero-padded to two digits, with no calendar check.
C4_YearPatternResult ==
    (Parsed /\ YearDateStarts(subject) # {})
        => parsed = Some(FirstYearDate(subject))

\* a parsed subject whose first year-bearing date has month 13 and day 45
C4_Witness ==
    /\ Parsed
    /\ YearDateStarts(subject) # {}
    /\ SubSeq(FirstYearDate(subject), 5, 8) = <<"1", "3", "4", "5">>
    /\ parsed = Some(FirstYearDate(subject))

\* C5: when a subject holds both a year-bearing date and a bare eight-digit
\* run, the year-bearing date is returned, wherever the run stands.
C5_PatternPriority ==
    (Parsed /\ YearDateStarts(subject) # {} /\ WindowStarts(subject) # {})
        => parsed = Some(FirstYearDate(subject))

\* a calendar-valid run stands before the year-bearing date and loses to it
C5_Witness ==
    /\ Parsed
    /\ YearDateStarts(subject) # {}
    /\ \E j \in ValidWindowStarts(subject) :
          /\ j + 7 < Least(YearDateStarts(subject))
          /\ parsed # Some(Window(subject, j))
    /\ parsed = Some(FirstYearDate(subject))

\* C6 as claimed: without a year-bearing date, a subject containing a
\* calendar-valid run of exactly eight digits parses to such a run.
C6_AnyValidRunReturned ==
    LET s == subject
        runs == {i \in ValidWindowStarts(s) :
                    ~IsDigitAt(s, i - 1) /\ ~IsDigitAt(s, i + 8)}
    IN  (Parsed /\ YearDateStarts(s) = {} /\ runs # {})
            => \E i \in runs : parsed = Some(Window(s, i))

\* C6 (amended): without a year-bearing date, when the first eight consecutive
\* digits of the subject are a calendar-valid date, they are returned unchanged.
C6_FirstValidRunReturned ==
    (Parsed /\ YearDateStarts(subject) = {} /\ FirstWindowValid(subject))
        => parsed = Some(Window(subject, Least(WindowStarts(subject))))

\* the valid run is returned although it does not start the subject
C6_Witness ==
    /\ Parsed
    /\ YearDateStarts(subject) = {}
    /\ FirstWindowValid(subject)
    /\ Least(WindowStarts(subject)) > 1
    /\ parsed = Some(Window(subject, Least(WindowStarts(subject))))

\* the result pattern 3 alone gives
Pattern3Only(s, year) ==
    IF MonthDayStarts(s) # {} THEN Some(IntToStr(year) \o FirstMonthDay(s)) ELSE None

\* C7: without a year-bearing date, when the first eight consecutive digits
\* are not a valid date, the result is that of pattern 3 alone; no later
\* eight-digit substring is tried.
C7_InvalidRunNotRetried ==
    (/\ Parsed
     /\ YearDateStarts(subject) = {}
     /\ WindowStarts(subject) # {}
     /\ ~FirstWindowValid(subject))
        => parsed = Pattern3Only(subject, current_year)

\* an invalid first run is followed by a valid one, which is not returned
C7_Witness ==
    /\ Parsed
    /\ YearDateStarts(subject) = {}
    /\ WindowStarts(subject) # {}
    /\ ~FirstWindowValid(subject)
    /\ \E j \in ValidWindowStarts(subject) :
          j > Least(WindowStarts(subject)) /\ parsed # Some(Window(subject, j))
    /\ parsed = None

\* C8: when neither the year-bearing pattern nor a valid first run gives a
\* result and the subject holds <M>Wol<D>Il, the result is the current year
\* followed by M and D zero-padded.
C8_CurrentYearFallback ==
    (/\ Parsed
     /\ YearDateStarts(subject) = {}
     /\ ~FirstWindowValid(subject)
     /\ MonthDayStarts(subject) # {})
        => parsed = Some(IntToStr(current_year) \o FirstMonthDay(subject))

\* an invalid eight-digit run accompanies the year-less date, in a year
\* other than the one the other subjects write
C8_Witness ==
    /\ Parsed
    /\ YearDateStarts(subject) = {}
    /\ WindowStarts(subject) # {}
    /\ ~FirstWindowValid(subject)
    /\ MonthDayStarts(subject) # {}
    /\ current_year = 2026
    /\ parsed = Some(<<"2", "0", "2", "6", "0", "9", "0", "5">>)

\* C9: the result is absent exactly when none of the three patterns gives a
\* result, and no exception escapes.
C9_AbsentIffNoPattern ==
    Parsed =>
        /\ parsed.kind \in {"str", "None"}
        /\ (parsed = None) <=>
              (/\ YearDateStarts(subject) = {}
               /\ ~FirstWindowValid(subject)
               /\ MonthDayStarts(subject) = {})

\* absent although the subject holds eight digits: strptime rejected them
C9_Witness ==
    /\ Parsed
    /\ parsed = None
    /\ WindowStarts(subject) # {}
    /\ ~FirstWindowValid(subject)
    /\ ValidWindowStarts(subject) = {}


----------------------------------------------------------------------------
(* Message selection: a candidate list is assembled, then one selector runs *)

InitSelect ==
    /\ pc = "build"
    /\ current_year \in Years
    /\ ParseIdle
    /\ SelectIdle
    /\ ExcelIdle
    /\ RunIdle
    /\ MainIdle
    /\ CleanIdle
    /\ CaptureIdle

AppendMessage(subj) ==
    /\ pc = "build"
    /\ Len(messages_data) < MaxMsgs
    /\ messages_data' = Append(messages_data,
                               [id |-> Len(messages_data) + 1, subject |-> subj])
    /\ UNCHANGED <<pc, current_year, parse_vars, target_date, last_call, selected,
                   first_selected, excel_vars, run_vars, main_vars, clean_vars,
                   capture_vars>>

FindMessageByDate(d) ==
    /\ pc = "build"
    /\ target_date' = Some(d)
    /\ selected' = find_message_by_date(messages_data, d, current_year)
    /\ last_call' = "by_date"
    /\ pc' = "done"
    /\ UNCHANGED <<current_year, parse_vars, messages_data, first_selected,
                   excel_vars, run_vars, main_vars, clean_vars,
                   capture_vars>>

FindLatestMessage ==
    /\ pc = "build"
    /\ target_date' = None
    /\ selected' = find_latest_message(messages_data, current_year)
    /\ last_call' = "latest"
    /\ pc' = "done"
    /\ UNCHANGED <<current_year, parse_vars, messages_data, first_selected,
                   excel_vars, run_vars, main_vars, clean_vars,
                   capture_vars>>

NextSelect ==
    \/ \E subj \in SelectSubjects : AppendMessage(subj)
    \/ \E d \in TargetDates : FindMessageByDate(d)
    \/ FindLatestMessage

SpecSelect == InitSelect /\ [][NextSelect]_vars

\* the key a candidate is ranked by
KeyOf(i) == sort_key(messages_data[i], current_year)

\* a <= b in lexicographic order of code points
LexLeq(a, b) ==
    \/ /\ Len(a) <= Len(b)
       /\ \A k \in 1..Len(a) : a[k] = b[k]
    \/ \E k \in 1..Len(a) :
          /\ k <= Len(b)
          /\ \A h \in 1..(k - 1) : a[h] = b[h]
          /\ CharCode(a[k]) < CharCode(b[k])

\* C1: with no target date and a non-empty list, the candidate returned has
\* the lexicographically greatest key ('00000000' for an unparseable subject)
\* and is the first of the candidates with that key.
C1_LatestIsFirstGreatest ==
    (last_call = "latest" /\ messages_data # <<>>)
        => \E i \in 1..Len(messages_data) :
              /\ selected = SomeMsg(messages_data[i])
              /\ \A j \in 1..Len(messages_data) : LexLeq(KeyOf(j), KeyOf(i))
              /\ \A j \in 1..(i - 1) : KeyOf(j) # KeyOf(i)

\* two candidates share the greatest key, a smaller one stands before them,
\* and the earlier of the two is returned
C1_Witness ==
    /\ last_call = "latest"
    /\ Len(messages_data) = 3
    /\ KeyOf(1) # KeyOf(2)
    /\ LexLeq(KeyOf(1), KeyOf(2))
    /\ KeyOf(2) = KeyOf(3)
    /\ messages_data[2].subject # messages_data[3].subject
    /\ selected = SomeMsg(messages_data[2])

DateOf(i) == parse_date_from_subject(messages_data[i].subject, current_year)

\* C2: with a target date, the candidate returned is the first whose parsed
\* date equals the target, and the result is absent when no candidate's does.
C2_ByDateIsFirstMatch ==
    last_call = "by_date" =>
        LET hits == {i \in 1..Len(messages_data) : DateOf(i) = target_date}
        IN  IF hits = {} THEN selected = None
            ELSE /\ selected = SomeMsg(messages_data[Least(hits)])
                 /\ DateOf(selected.val[1].id) = target_date
                 /\ \A j \in 1..(selected.val[1].id - 1) : DateOf(j) # target_date

\* the target is matched by the second and third candidates only
C2_Witness ==
    /\ last_call = "by_date"
    /\ Len(messages_data) = 3
    /\ DateOf(1) # target_date
    /\ DateOf(2) = target_date
    /\ DateOf(3) = target_date
    /\ selected = SomeMsg(messages_data[2])

\* C3: over an empty candidate list both selectors return absent.
C3_EmptyGivesAbsent ==
    (last_call \in {"by_date", "latest"} /\ messages_data = <<>>)
        => selected = None

\* find_latest_message has run on the empty list
C3_Witness ==
    /\ last_call = "latest"
    /\ messages_data = <<>>
    /\ selected = None


\* C18: for every candidate list and every target date, given or not, the
\* selector returns one of the candidates or absent; nothing is raised.
C18_SelectorsTotal ==
    last_call \in {"by_date", "latest"} =>
        \/ selected = None
        \/ /\ selected.kind = "msg"
           /\ \E i \in 1..Len(messages_data) : selected = SomeMsg(messages_data[i])

\* a requested date that none of three candidates has, one of them without
\* any date in its subject: the result is absent
C18_Witness ==
    /\ last_call = "by_date"
    /\ Len(messages_data) = 3
    /\ \E i \in 1..3 : DateOf(i) = None
    /\ \A i \in 1..3 : DateOf(i) # target_date
    /\ selected = None

\* C23: for the candidates a "2025년09월04일 보고" and b "09월05일 보고",
\* in this order and without a target date, the selector returns b whenever
\* the calendar year is 2025 or later.
C23_ScenarioReturnsB ==
    (/\ last_call = "latest"
     /\ Len(messages_data) = 2
     /\ messages_data[1].subject = ScenarioSubjectA
     /\ messages_data[2].subject = ScenarioSubjectB
     /\ current_year >= 2025) =>
        selected = SomeMsg(messages_data[2])

\* the scenario in 2026: b is keyed 20260905 and returned
C23_Witness ==
    /\ last_call = "latest"
    /\ Len(messages_data) = 2
    /\ messages_data[1].subject = ScenarioSubjectA
    /\ messages_data[2].subject = ScenarioSubjectB
    /\ current_year = 2026
    /\ KeyOf(2) = <<"2", "0", "2", "6", "0", "9", "0", "5">>
    /\ selected = SomeMsg(messages_data[2])

----------------------------------------------------------------------------
(* Repeated selection: the selector runs again on the same candidate list   *)
(* and target date, possibly after the calendar year has changed            *)

\* the clock passes New Year between two calls
YearTurns ==
    /\ pc = "done"
    /\ last_call \in {"by_date", "latest"}
    /\ current_year + 1 \in Years
    /\ current_year' = current_year + 1
    /\ UNCHANGED <<pc, parse_vars, select_vars, excel_vars, run_vars, main_vars,
                   clean_vars,
                   capture_vars>>

\* the caller fixes the selector and its target date for both calls
ChooseSelector(call, d) ==
    /\ pc = "build"
    /\ last_call' = call
    /\ target_date' = IF call = "by_date" THEN Some(d) ELSE None
    /\ pc' = "chosen"
    /\ UNCHANGED <<current_year, parse_vars, messages_data, selected, first_selected,
                   excel_vars, run_vars, main_vars, clean_vars,
                   capture_vars>>

\* the selector of last_call run on messages_data and target_date: the first
\* call, or the same call repeated
SelectMessage ==
    /\ pc \in {"chosen", "done"}
    /\ first_selected' = selected
    /\ selected' = IF last_call = "by_date"
                   THEN find_message_by_date(messages_data, target_date.val, current_year)
                   ELSE find_latest_message(messages_data, current_year)
    /\ pc' = IF pc = "chosen" THEN "done" ELSE "again"
    /\ UNCHANGED <<current_year, parse_vars, messages_data, target_date, last_call,
                   excel_vars, run_vars, main_vars, clean_vars,
                   capture_vars>>

NextReselect ==
    \/ \E subj \in SelectSubjects : AppendMessage(subj)
    \/ \E call \in {"by_date", "latest"}, d \in TargetDates : ChooseSelector(call, d)
    \/ SelectMessage
    \/ YearTurns

SpecReselect == InitSelect /\ [][NextReselect]_vars

\* C17 as claimed: two calls of a selector with equal candidate lists and
\* equal target dates return the same candidate, whatever the calendar year
\* at the time of each call.
C17_SameArgumentsSameResult ==
    pc = "again" => selected = first_selected

----------------------------------------------------------------------------
(* Spreadsheet conversion: a document is assembled, then converted once *)

InitExcel ==
    /\ pc = "build"
    /\ current_year = 2025
    /\ ParseIdle
    /\ SelectIdle
    /\ data_tables \in {[kind |-> "missing", val |-> <<>>],
                        [kind |-> "nonlist", val |-> <<>>],
                        [kind |-> "list", val |-> <<>>]}
    /\ writer = "none"
    /\ sheets = <<>>
    /\ col_counts = <<>>
    /\ excel_result = Unset
    /\ RunIdle
    /\ MainIdle
    /\ CleanIdle
    /\ CaptureIdle

AddTable(headers) ==
    /\ pc = "build"
    /\ data_tables.kind = "list"
    /\ Len(data_tables.val) < MaxTables
    /\ data_tables' = [data_tables EXCEPT
                          !.val = Append(@, [headers |-> headers, rows |-> <<>>])]
    /\ UNCHANGED <<pc, current_year, parse_vars, select_vars, writer, sheets,
                   col_counts, excel_result, run_vars, main_vars, clean_vars,
                   capture_vars>>

AddRow(row) ==
    /\ pc = "build"
    /\ data_tables.kind = "list"
    /\ data_tables.val # <<>>
    /\ Len(data_tables.val[Len(data_tables.val)].rows) < MaxRows
    /\ data_tables' = [data_tables EXCEPT
                          !.val[Len(data_tables.val)].rows = Append(@, row)]
    /\ UNCHANGED <<pc, current_year, parse_vars, select_vars, writer, sheets,
                   col_counts, excel_result, run_vars, main_vars, clean_vars,
                   capture_vars>>

\* json_tables_to_excel: the document is rejected before the writer is opened,
\* or every table is written to its sheet and the writer is closed; whatever
\* is raised inside the try block leaves as FileProcessingError
JsonTablesToExcel ==
    /\ pc = "build"
    /\ pc' = "done"
    /\ excel_result' = json_tables_to_excel(data_tables).result
    /\ writer' = json_tables_to_excel(data_tables).writer
    /\ sheets' = json_tables_to_excel(data_tables).sheets
    /\ col_counts' = json_tables_to_excel(data_tables).col_counts
    /\ UNCHANGED <<current_year, parse_vars, select_vars, data_tables, run_vars,
                   main_vars, clean_vars,
                   capture_vars>>

NextExcel ==
    \/ \E h \in HeaderChoices : AddTable(h)
    \/ \E r \in RowChoices : AddRow(r)
    \/ JsonTablesToExcel

SpecExcel == InitExcel /\ [][NextExcel]_vars

\* the column count the i-th table is brought to
TargetColumns(i) ==
    LET tb == data_tables.val[i]
        lens == {Len(tb.rows[r]) : r \in 1..Len(tb.rows)}
    IN  IF Len(tb.headers) > 0 THEN Len(tb.headers)
        ELSE IF lens = {} THEN 0
        ELSE CHOOSE n \in lens : \A k \in lens : k <= n

\* C10: every sheet written is rectangular: its header row has N cells and
\* each of its rows has N cells, N the column count of its table.
C10_SheetsRectangular ==
    \A i \in 1..Len(sheets) :
        /\ Len(sheets[i].headers) = TargetColumns(i)
        /\ \A r \in 1..Len(sheets[i].rows) :
              Len(sheets[i].rows[r]) = TargetColumns(i)

\* two sheets are written: one from two headers with a short and a long row,
\* one from a table with neither headers nor rows (N = 0)
C10_Witness ==
    /\ excel_result.kind = "ok"
    /\ Len(sheets) = 2
    /\ Len(data_tables.val[1].headers) = 2
    /\ {Len(data_tables.val[1].rows[r]) : r \in 1..Len(data_tables.val[1].rows)} = {1, 3}
    /\ Len(sheets[1].rows) = 2
    /\ data_tables.val[2] = [headers |-> <<>>, rows |-> <<>>]
    /\ sheets[2].headers = <<>>


Converted == pc = "done" /\ excel_result.kind # "unset"

\* the tables of the document, when its tables property is a sequence
DocTables == IF data_tables.kind = "list" THEN data_tables.val ELSE <<>>

\* the document has no table: tables missing, not a sequence, or empty
NoTables == DocTables = <<>>

\* C11: the column count of each table is the length of its headers when it
\* has headers, else the greatest row length, 0 without rows; it depends on
\* that table alone.
C11_ColumnCount ==
    (Converted /\ ~NoTables) =>
        /\ Len(col_counts) = Len(DocTables)
        /\ \A i \in 1..Len(DocTables) :
              LET tb == DocTables[i]
              IN  /\ tb.headers # <<>> => col_counts[i] = Len(tb.headers)
                  /\ (tb.headers = <<>> /\ tb.rows = <<>>) => col_counts[i] = 0
                  /\ (tb.headers = <<>> /\ tb.rows # <<>>) =>
                        /\ \E r \in 1..Len(tb.rows) : Len(tb.rows[r]) = col_counts[i]
                        /\ \A r \in 1..Len(tb.rows) : Len(tb.rows[r]) <= col_counts[i]

\* two tables of one document get different counts: the first from its one
\* header although a row is longer, the second from its longest row
C11_Witness ==
    /\ Converted
    /\ Len(DocTables) = 2
    /\ Len(DocTables[1].headers) = 1
    /\ \E r \in 1..Len(DocTables[1].rows) : Len(DocTables[1].rows[r]) = 3
    /\ DocTables[2].headers = <<>>
    /\ Len(DocTables[2].rows) = 2
    /\ col_counts = <<1, 3>>

\* C12: each row keeps its first min(len, N) cells in order, a short row is
\* filled with null cells on the right up to N, a long row is cut to N, and
\* the rows keep their number and order.
C12_RowsPaddedOrCut ==
    (Converted /\ ~NoTables) =>
        /\ Len(sheets) = Len(DocTables)
        /\ \A i \in 1..Len(DocTables) :
              LET rows == DocTables[i].rows
                  out == sheets[i].rows
                  N == TargetColumns(i)
              IN  /\ Len(out) = Len(rows)
                  /\ \A r \in 1..Len(rows) :
                        /\ Len(out[r]) = N
                        /\ \A k \in 1..N :
                              out[r][k] = IF k <= Len(rows[r]) THEN rows[r][k] ELSE None

\* headers [a, b] with a row of one cell and a row of three: the first is
\* padded, the second cut
C12_Witness ==
    /\ Converted
    /\ Len(DocTables) >= 1
    /\ DocTables[1].headers = <<<<"a">>, <<"b">>>>
    /\ DocTables[1].rows = <<<<Some(<<"1">>)>>, <<Some(<<"2">>), None, Some(<<"4">>)>>>>
    /\ sheets[1].rows = <<<<Some(<<"1">>), None>>, <<Some(<<"2">>), None>>>>

\* the name col_k, for k below 10
ColName(k) == <<"c", "o", "l", "_", DigitChars[k + 1]>>

\* C13: a table without headers gets the header row col_1 .. col_N, N its
\* greatest row length.
C13_SynthesizedHeaders ==
    (Converted /\ ~NoTables) =>
        \A i \in 1..Len(DocTables) :
            DocTables[i].headers = <<>> =>
                /\ Len(sheets[i].headers) = TargetColumns(i)
                /\ \A k \in 1..Len(sheets[i].headers) : sheets[i].headers[k] = ColName(k)

\* no headers, a row of three cells and a row of one: col_1, col_2, col_3
C13_Witness ==
    /\ Converted
    /\ Len(DocTables) >= 1
    /\ DocTables[1].headers = <<>>
    /\ DocTables[1].rows = <<<<Some(<<"2">>), None, Some(<<"4">>)>>, <<Some(<<"1">>)>>>>
    /\ sheets[1].headers = <<ColName(1), ColName(2), ColName(3)>>
    /\ sheets[1].rows[2] = <<Some(<<"1">>), None, None>>

\* C30: the header row written for a table with headers is the table's
\* headers, cell for cell and of the same length: cutting to the column
\* count never shortens them, surplus cells are dropped from rows only.
C30_HeadersUnchanged ==
    (Converted /\ ~NoTables) =>
        \A i \in 1..Len(DocTables) :
            DocTables[i].headers # <<>> =>
                /\ i <= Len(sheets)
                /\ sheets[i].headers = DocTables[i].headers

\* one header over a row of three cells: the row is cut to one cell, the
\* header row is written as given
C30_Witness ==
    /\ Converted
    /\ Len(DocTables) = 1
    /\ DocTables[1].headers = <<<<"a">>>>
    /\ DocTables[1].rows = <<<<Some(<<"2">>), None, Some(<<"4">>)>>>>
    /\ sheets[1].headers = <<<<"a">>>>
    /\ sheets[1].rows = <<<<Some(<<"2">>)>>>>

\* C14 as claimed: a document without tables makes json_tables_to_excel fail
\* with ValidationError, and that is the error its caller sees.
C14_ValidationErrorSeen ==
    (Converted /\ NoTables) => excel_result = Raised("ValidationError")

\* C15: a document without tables is rejected before any table is
\* processed: the writer is never opened and no sheet is written.
C15_RejectedBeforeWriting ==
    (Converted /\ NoTables) =>
        /\ excel_result.kind = "raise"
        /\ writer = "none"
        /\ sheets = <<>>
        /\ col_counts = <<>>

\* a document whose tables property is not a sequence has been rejected
C15_Witness ==
    /\ Converted
    /\ data_tables.kind = "nonlist"
    /\ excel_result.kind = "raise"
    /\ writer = "none"

\* C16: k >= 1 tables give exactly k sheets, the i-th named Table<i>,
\* counted from 1, whatever the table holds.
C16_SheetNames ==
    (Converted /\ ~NoTables) =>
        /\ Len(sheets) = Len(DocTables)
        /\ \A i \in 1..Len(sheets) :
              sheets[i].name = <<"T", "a", "b", "l", "e", DigitChars[i + 1]>>

\* two equal tables go to the sheets Table1 and Table2
C16_Witness ==
    /\ Converted
    /\ Len(DocTables) = 2
    /\ DocTables[1] = DocTables[2]
    /\ DocTables[1].rows # <<>>
    /\ sheets[1].name = <<"T", "a", "b", "l", "e", "1">>
    /\ sheets[2].name = <<"T", "a", "b", "l", "e", "2">>
    /\ sheets[1].rows = sheets[2].rows

----------------------------------------------------------------------------
(* The workflow: GmailTableExtractor.run, one action per step it calls *)

\* the classes `except Exception` catches: those of utils/exceptions.py, all
\* derived from GmailCrawlerError(Exception), and the built-in ones the
\* steps raise
ExceptionClasses ==
    {"GmailCrawlerError", "AuthenticationError", "EmailNotFoundError",
     "EmailExtractionError", "TableExtractionError", "AIParsingError",
     "FileProcessingError", "ConfigurationError", "ValidationError",
     "RuntimeError", "FileNotFoundError"}

\* the dataclass ProcessingResult; output_files is [] when not given
ProcessingResult(success, message, input_file, output_files, error, processing_time) ==
    [kind |-> "result",
     val |-> [success |-> success, message |-> message, input_file |-> input_file,
              output_files |-> output_files, error |-> error,
              processing_time |-> processing_time]]

\* FilePaths.get_all_files: the files set, in the order html, png, json, excel
get_all_files(fp) ==
    (IF fp.html_file = None THEN <<>> ELSE <<fp.html_file.val>>)
    \o (IF fp.png_file = None THEN <<>> ELSE <<fp.png_file.val>>)
    \o (IF fp.json_file = None THEN <<>> ELSE <<fp.json_file.val>>)
    \o (IF fp.excel_file = None THEN <<>> ELSE <<fp.excel_file.val>>)

\* the early returns of run: nothing to process, no error
nothing_result(message) ==
    ProcessingResult(FALSE, <<message>>, None, <<>>, None, Some("elapsed"))

\* the return at the end of the try block
success_result(fp) ==
    ProcessingResult(TRUE, <<"completed">>, fp.html_file, get_all_files(fp), None,
                     Some("elapsed"))

\* a failure that reports the files written before it
failure_result_with_files(exc) ==
    ProcessingResult(FALSE, <<"workflow error", exc>>, file_paths.html_file,
                     get_all_files(file_paths), Raised(exc), Some("elapsed"))

\* a failure reported without the exception that caused it
failure_result_bare(exc) ==
    ProcessingResult(FALSE, <<"workflow error", exc>>, None, <<>>, None,
                     Some("elapsed"))

\* the except clause of run: the exception becomes part of the result
failure_result(exc) ==
    ProcessingResult(FALSE, <<"workflow error", exc>>, None, <<>>, Raised(exc),
                     Some("elapsed"))

\* an exception leaving a step inside the try block of run: caught when it
\* is an Exception, otherwise it leaves run
run_except(exc) ==
    IF exc \in ExceptionClasses THEN failure_result(exc)
    ELSE [kind |-> "escaped", val |-> <<exc>>]

\* a workflow that goes on to the next step whatever the last one did
next_pc_regardless(outcome, next) ==
    next

\* where control goes after a step: on to the next step, or out of run when
\* the step raised or gave nothing to go on with
next_pc(outcome, next) ==
    IF outcome = "ok" THEN next ELSE "returned"

\* an extraction that lists the mailbox whatever is configured
first_extract_step_listing ==
    "list_messages_from_sender"

\* the guard at the head of extract_email_data
extractor_checked(exc) == IF email_extractor THEN exc ELSE "GmailCrawlerError"

\* the step after authenticate: config.message_id decides
first_extract_step ==
    IF message_id # None THEN "get_email_data" ELSE "list_messages_from_sender"

\* the step that follows in run and process_tables
successor(step) ==
    CASE step = "authenticate" -> first_extract_step
      [] step = "list_messages_from_sender" -> "get_email_data"
      [] step = "get_email_data" -> "save_email_html"
      [] step = "save_email_html" -> "capture_html_to_png"
      [] step = "capture_html_to_png" ->
            IF gemini_client THEN "table_image_to_json" ELSE "initialize_gemini"
      [] step = "initialize_gemini" -> "table_image_to_json"
      [] step = "table_image_to_json" -> "save_json_file"
      [] step = "save_json_file" -> "json_tables_to_excel"
      [] step = "json_tables_to_excel" -> "returned"

\* the id handed to get_email_data
id_to_fetch == IF message_id # None THEN message_id.val ELSE selected.val[1].id

\* what the sender's mailbox lists
RunMailboxes ==
    { <<>>,
      <<[id |-> 1, subject |-> <<"x">>]>>,
      <<[id |-> 1, subject |-> <<"x">>], [id |-> 2, subject |-> <<" ">>]>>,
      <<[id |-> 1, subject |-> <<"9", Wol, "5", Il>>],
        [id |-> 2, subject |-> <<"2", "0", "2", "5", Nyeon, "0", "9", Wol, "0", "4", Il>>],
        [id |-> 3, subject |-> <<"2", "0", "2", "5", "0", "9", "0", "5">>]>> }

\* dates given to run
RunTargetDates ==
    { <<"2", "0", "2", "5", "0", "9", "0", "4">>,
      <<"2", "0", "2", "6", "0", "9", "0", "5">> }

\* bodies of the fetched message: tables are cut out of the HTML part only
EmailChoices ==
    { [has_html |-> FALSE, has_tables |-> FALSE],
      [has_html |-> TRUE, has_tables |-> FALSE],
      [has_html |-> TRUE, has_tables |-> TRUE] }

\* documents the image model answers with
RunDocuments ==
    { [kind |-> "missing", val |-> <<>>],
      [kind |-> "nonlist", val |-> <<>>],
      [kind |-> "list", val |-> <<>>],
      [kind |-> "list",
       val |-> <<[headers |-> <<<<"a">>, <<"b">>>>,
                  rows |-> << <<Some(<<"1">>)>>,
                              <<Some(<<"2">>), None, Some(<<"4">>)>> >>]>>],
      [kind |-> "list",
       val |-> <<[headers |-> <<>>, rows |-> << <<Some(<<"1">>)>> >>],
                 [headers |-> <<<<"a">>>>, rows |-> <<>>]>>] }

\* main: the configuration is read, the extractor constructed, run called
InitRun ==
    /\ pc = "authenticate"
    /\ current_year = 2025
    /\ ParseIdle
    /\ messages_data = <<>>
    /\ target_date \in {None} \cup {Some(d) : d \in RunTargetDates}
    /\ last_call = "none"
    /\ selected = Unset
    /\ first_selected = Unset
    /\ ExcelIdle
    /\ message_id \in {None, Some(9)}
    /\ email_extractor = FALSE
    /\ gemini_client = FALSE
    /\ email_data = None
    /\ file_paths = NoFiles
    /\ stage_log = <<>>
    /\ run_result = Unset
    /\ MainIdle
    /\ CleanIdle
    /\ CaptureIdle

\* a step of run ends: it is logged with its outcome, run goes on or returns
StepDone(step, outcome, exc, result) ==
    /\ stage_log' = Append(stage_log, [step |-> step, outcome |-> outcome, exc |-> exc])
    /\ pc' = next_pc(outcome, successor(step))
    /\ run_result' = result

StepRaised(step, exc) == StepDone(step, "raise", exc, run_except(exc))

\* self.authenticate()
Authenticate ==
    /\ pc = "authenticate"
    /\ \E exc \in {"none", "AuthenticationError"} :
          IF exc = "none"
          THEN /\ email_extractor' = TRUE
               /\ StepDone("authenticate", "ok", exc, run_result)
          ELSE /\ email_extractor' = FALSE
               /\ StepRaised("authenticate", exc)
    /\ UNCHANGED <<current_year, parse_vars, select_vars, excel_vars, message_id,
                   gemini_client, email_data, file_paths, main_vars, clean_vars,
                   capture_vars>>

\* extract_email_data without message_id, up to the choice of the message:
\* the list is fetched, an empty list or an empty selection returns None and
\* run returns with it
ListAndSelect ==
    /\ pc = "list_messages_from_sender"
    /\ \E fault \in {"none", "EmailNotFoundError"}, msgs \in RunMailboxes :
          LET exc == extractor_checked(fault)
              step == "list_messages_from_sender"
          IN  IF exc # "none"
              THEN /\ StepRaised(step, exc)
                   /\ UNCHANGED <<messages_data, last_call, selected>>
              ELSE IF msgs = <<>>
              THEN /\ messages_data' = msgs
                   /\ StepDone(step, "nothing", exc, nothing_result("no email"))
                   /\ UNCHANGED <<last_call, selected>>
              ELSE /\ messages_data' = msgs
                   /\ last_call' = IF target_date # None THEN "by_date" ELSE "latest"
                   /\ selected' = IF target_date # None
                                  THEN find_message_by_date(msgs, target_date.val,
                                                            current_year)
                                  ELSE find_latest_message(msgs, current_year)
                   /\ IF selected' = None
                      THEN StepDone(step, "nothing", exc, nothing_result("no email"))
                      ELSE StepDone(step, "ok", exc, run_result)
    /\ UNCHANGED <<current_year, parse_vars, target_date, first_selected, excel_vars,
                   message_id, email_extractor, gemini_client, email_data, file_paths,
                   main_vars, clean_vars,
                   capture_vars>>

\* email_extractor.get_email_data, of config.message_id or of the selection
GetEmailData ==
    /\ pc = "get_email_data"
    /\ \E fault \in {"none", "EmailExtractionError"}, body \in EmailChoices :
          LET exc == extractor_checked(fault)
          IN  IF exc # "none"
              THEN /\ StepRaised("get_email_data", exc)
                   /\ UNCHANGED email_data
              ELSE /\ email_data' = [kind |-> "email",
                                     val |-> [message_id |-> id_to_fetch,
                                              has_html |-> body.has_html,
                                              has_tables |-> body.has_tables]]
                   /\ StepDone("get_email_data", "ok", exc, run_result)
    /\ UNCHANGED <<current_year, parse_vars, select_vars, excel_vars, message_id,
                   email_extractor, gemini_client, file_paths, main_vars,
                   clean_vars,
                   capture_vars>>

\* save_email_html: None for a body without HTML and without tables
SaveEmailHtml ==
    /\ pc = "save_email_html"
    /\ IF ~email_data.val.has_html /\ ~email_data.val.has_tables
       THEN /\ StepDone("save_email_html", "nothing", "none",
                             nothing_result("no html"))
            /\ UNCHANGED file_paths
       ELSE \E exc \in {"none", "FileProcessingError"} :
               IF exc = "none"
               THEN /\ file_paths' = [file_paths EXCEPT !.html_file = Some("html")]
                    /\ StepDone("save_email_html", "ok", exc, run_result)
               ELSE /\ StepRaised("save_email_html", exc)
                    /\ UNCHANGED file_paths
    /\ UNCHANGED <<current_year, parse_vars, select_vars, excel_vars, message_id,
                   email_extractor, gemini_client, email_data, main_vars,
                   clean_vars,
                   capture_vars>>

\* process_tables, step 1
CaptureHtmlToPng ==
    /\ pc = "capture_html_to_png"
    /\ \E exc \in {"none", "FileProcessingError", "RuntimeError"} :
          IF exc = "none"
          THEN /\ file_paths' = [file_paths EXCEPT !.png_file = Some("png")]
               /\ StepDone("capture_html_to_png", "ok", exc, run_result)
          ELSE /\ StepRaised("capture_html_to_png", exc)
               /\ UNCHANGED file_paths
    /\ UNCHANGED <<current_year, parse_vars, select_vars, excel_vars, message_id,
                   email_extractor, gemini_client, email_data, main_vars,
                   clean_vars,
                   capture_vars>>

\* process_tables, step 2: the client is made when it is first needed
InitializeGemini ==
    /\ pc = "initialize_gemini"
    /\ \E exc \in {"none", "ConfigurationError"} :
          IF exc = "none"
          THEN /\ gemini_client' = TRUE
               /\ StepDone("initialize_gemini", "ok", exc, run_result)
          ELSE /\ gemini_client' = FALSE
               /\ StepRaised("initialize_gemini", exc)
    /\ UNCHANGED <<current_year, parse_vars, select_vars, excel_vars, message_id,
                   email_extractor, email_data, file_paths, main_vars, clean_vars,
                   capture_vars>>

\* process_tables, step 2: the image model answers with a document
TableImageToJson ==
    /\ pc = "table_image_to_json"
    /\ \E exc \in {"none", "AIParsingError", "FileNotFoundError"}, d \in RunDocuments :
          IF exc = "none"
          THEN /\ data_tables' = d
               /\ StepDone("table_image_to_json", "ok", exc, run_result)
          ELSE /\ StepRaised("table_image_to_json", exc)
               /\ UNCHANGED data_tables
    /\ UNCHANGED <<current_year, parse_vars, select_vars, writer, sheets, col_counts,
                   excel_result, message_id, email_extractor, gemini_client,
                   email_data, file_paths, main_vars, clean_vars,
                   capture_vars>>

\* process_tables, step 3
SaveJsonFile ==
    /\ pc = "save_json_file"
    /\ \E exc \in {"none", "FileProcessingError"} :
          IF exc = "none"
          THEN /\ file_paths' = [file_paths EXCEPT !.json_file = Some("json")]
               /\ StepDone("save_json_file", "ok", exc, run_result)
          ELSE /\ StepRaised("save_json_file", exc)
               /\ UNCHANGED file_paths
    /\ UNCHANGED <<current_year, parse_vars, select_vars, excel_vars, message_id,
                   email_extractor, gemini_client, email_data, main_vars,
                   clean_vars,
                   capture_vars>>

\* process_tables, step 4, and the return of run: the JSON file is read back
\* and converted; a file that cannot be read fails like a rejected document
WriteExcel ==
    /\ pc = "json_tables_to_excel"
    /\ \E readable \in BOOLEAN :
          LET out == IF readable THEN json_tables_to_excel(data_tables)
                     ELSE [result |-> reraised("FileNotFoundError"), writer |-> "none",
                           sheets |-> <<>>, col_counts |-> <<>>]
              written == [file_paths EXCEPT !.excel_file = Some("xlsx")]
          IN  /\ excel_result' = out.result
              /\ writer' = out.writer
              /\ sheets' = out.sheets
              /\ col_counts' = out.col_counts
              /\ IF out.result.kind = "ok"
                 THEN /\ file_paths' = written
                      /\ StepDone("json_tables_to_excel", "ok", "none",
                             success_result(written))
                 ELSE /\ StepRaised("json_tables_to_excel", out.result.val[1])
                      /\ UNCHANGED file_paths
    /\ UNCHANGED <<current_year, parse_vars, select_vars, data_tables, message_id,
                   email_extractor, gemini_client, email_data, main_vars,
                   clean_vars,
                   capture_vars>>

NextRun ==
    \/ Authenticate
    \/ ListAndSelect
    \/ GetEmailData
    \/ SaveEmailHtml
    \/ CaptureHtmlToPng
    \/ InitializeGemini
    \/ TableImageToJson
    \/ SaveJsonFile
    \/ WriteExcel

SpecRun == InitRun /\ [][NextRun]_vars

\* the steps of a run in the order of the workflow; the list is fetched only
\* when no message id is configured
RunOrder ==
    <<"authenticate">>
    \o (IF message_id = None THEN <<"list_messages_from_sender">> ELSE <<>>)
    \o <<"get_email_data", "save_email_html", "capture_html_to_png",
         "initialize_gemini", "table_image_to_json", "save_json_file",
         "json_tables_to_excel">>

Returned == pc = "returned"

LastStep == stage_log[Len(stage_log)]

\* C19: the steps started in a run are the first steps of the fixed order
\* authenticate, list and select (or direct fetch), fetch body, save markup,
\* rasterize, infer tables, save JSON, write spreadsheet, and every step
\* before the last one started has succeeded: after a step that raised or
\* gave nothing, no step is started.
C19_StagesInOrder ==
    /\ Len(stage_log) <= Len(RunOrder)
    /\ \A i \in 1..Len(stage_log) :
          /\ stage_log[i].step = RunOrder[i]
          /\ i < Len(stage_log) => stage_log[i].outcome = "ok"

\* the JSON file could not be saved: seven steps succeeded before it, the
\* spreadsheet step was never started
C19_Witness ==
    /\ Returned
    /\ message_id = None
    /\ Len(stage_log) = 8
    /\ LastStep.step = "save_json_file"
    /\ LastStep.outcome = "raise"

\* C20: no exception of a step leaves run. When a step raised, run returned
\* a result with success false, a message, the elapsed time and that
\* exception attached; a result with success true is returned only after
\* every step of the order completed without raising.
C20_FailuresReported ==
    /\ run_result.kind \in {"unset", "result"}
    /\ (run_result.kind = "result") <=> Returned
    /\ (stage_log # <<>> /\ LastStep.outcome = "raise") =>
          /\ run_result.kind = "result"
          /\ run_result.val.success = FALSE
          /\ run_result.val.message # <<>>
          /\ run_result.val.processing_time # None
          /\ run_result.val.error = Raised(LastStep.exc)
    /\ (run_result.kind = "result" /\ run_result.val.success) =>
          /\ Len(stage_log) = Len(RunOrder)
          /\ \A i \in 1..Len(stage_log) : stage_log[i].outcome = "ok"

\* the image model failed after the page was rasterized: run returned the
\* failure with the AIParsingError attached
C20_Witness ==
    /\ Returned
    /\ LastStep.step = "table_image_to_json"
    /\ LastStep.outcome = "raise"
    /\ run_result.val.success = FALSE
    /\ run_result.val.error = Raised("AIParsingError")

\* steps of the workflow started so far, by name
StepsStarted == {stage_log[i].step : i \in 1..Len(stage_log)}

\* C22: when a date is requested and no listed candidate's subject parses
\* to it, the selector returns absent without raising, and run returns a
\* failure result with no error attached, after the listing step and
\* without fetching a body, rasterizing, inferring or writing a spreadsheet.
C22_NoMatchEndsRun ==
    (/\ target_date # None
     /\ messages_data # <<>>
     /\ \A i \in 1..Len(messages_data) : DateOf(i) # target_date) =>
        /\ last_call = "by_date"
        /\ selected = None
        /\ Returned
        /\ run_result.kind = "result"
        /\ run_result.val.success = FALSE
        /\ run_result.val.error = None
        /\ StepsStarted = {"authenticate", "list_messages_from_sender"}
        /\ LastStep.outcome = "nothing"
        /\ email_data = None
        /\ file_paths = NoFiles
        /\ writer = "none"

\* three candidates listed, 20260905 requested in 2025: none has that date
C22_Witness ==
    /\ Returned
    /\ Len(messages_data) = 3
    /\ target_date = Some(<<"2", "0", "2", "6", "0", "9", "0", "5">>)
    /\ selected = None
    /\ run_result.val.error = None

\* C26: with a message id configured, run fetches that message: the mailbox
\* is not listed, no selector runs, and the message fetched is the
\* configured one whatever target date was given; the listing step appears
\* only in runs without a configured id.
C26_DirectFetch ==
    /\ message_id # None =>
          /\ "list_messages_from_sender" \notin StepsStarted
          /\ messages_data = <<>>
          /\ last_call = "none"
          /\ selected = Unset
          /\ email_data # None => email_data.val.message_id = message_id.val
    /\ "list_messages_from_sender" \in StepsStarted => message_id = None
    /\ (message_id = None /\ email_data # None) =>
          /\ "list_messages_from_sender" \in StepsStarted
          /\ selected.kind = "msg"
          /\ email_data.val.message_id = selected.val[1].id

\* id 9 configured together with a target date: message 9 was fetched
C26_Witness ==
    /\ message_id = Some(9)
    /\ target_date # None
    /\ email_data # None
    /\ email_data.val.message_id = 9
    /\ StepsStarted = {"authenticate", "get_email_data"}

\* C28: without a target date, selection over a non-empty list returns a
\* candidate, never absent; when no subject holds a date the first candidate
\* of the list is returned, and run goes on to fetch that message.
C28_LatestNeverAbsent ==
    (last_call = "latest" /\ messages_data # <<>>) =>
        /\ selected.kind = "msg"
        /\ (\A i \in 1..Len(messages_data) : DateOf(i) = None) =>
              /\ selected = SomeMsg(messages_data[1])
              /\ (stage_log # <<>> /\ LastStep.step = "list_messages_from_sender") =>
                    /\ LastStep.outcome = "ok"
                    /\ pc = "get_email_data"
              /\ email_data # None =>
                    email_data.val.message_id = messages_data[1].id

\* two candidates, neither with a date: the first one was fetched
C28_Witness ==
    /\ last_call = "latest"
    /\ Len(messages_data) = 2
    /\ \A i \in 1..2 : DateOf(i) = None
    /\ selected = SomeMsg(messages_data[1])
    /\ email_data # None
    /\ email_data.val.message_id = messages_data[1].id

\* C29: a result of run lists output files only when it reports success; a
\* successful result lists the HTML, PNG, JSON and spreadsheet files in that
\* order and has no error; every other result has no output files and no
\* input file, also when files had been written before the failure.
C29_OutputFiles ==
    run_result.kind = "result" =>
        /\ run_result.val.output_files # <<>> => run_result.val.success
        /\ run_result.val.success =>
              /\ run_result.val.output_files = <<"html", "png", "json", "xlsx">>
              /\ run_result.val.error = None
        /\ ~run_result.val.success =>
              /\ run_result.val.output_files = <<>>
              /\ run_result.val.input_file = None

\* the spreadsheet step failed with three files on disk: none is reported
C29_Witness ==
    /\ Returned
    /\ LastStep.step = "json_tables_to_excel"
    /\ LastStep.outcome = "raise"
    /\ get_all_files(file_paths) = <<"html", "png", "json">>
    /\ run_result.val.output_files = <<>>
    /\ run_result.val.input_file = None

----------------------------------------------------------------------------
(* The program: main loads and validates the configuration, sets up        *)
(* logging, constructs the extractor, runs the workflow and exits          *)

\* int(s) for the values the environment holds here: an optional sign and
\* decimal digits, ValueError for anything else
int_from_env(s) ==
    IF s # <<>> /\ Head(s) \in {"-", "+"} /\ Tail(s) # <<>> /\ AllDigits(Tail(s))
    THEN [kind |-> "int", val |-> IF Head(s) = "-" THEN 0 - StrToInt(Tail(s))
                                  ELSE StrToInt(Tail(s))]
    ELSE IF s # <<>> /\ AllDigits(s)
    THEN [kind |-> "int", val |-> StrToInt(s)]
    ELSE Raised("ValueError")

\* os.environ.get(name, default)
environ_get(value, default) == IF value = None THEN default ELSE value.val

\* Config.from_env: the record of settings, or the ValueError of int()
from_env(env) ==
    LET max_results == int_from_env(environ_get(env.MAX_RESULTS, <<"1", "0">>))
        device_scale_factor == int_from_env(environ_get(env.DEVICE_SCALE_FACTOR, <<"2">>))
    IN  IF max_results.kind = "raise" THEN max_results
        ELSE IF device_scale_factor.kind = "raise" THEN device_scale_factor
        ELSE [kind |-> "config",
              val |-> [message_id |-> env.MESSAGE_ID,
                       target_date |-> env.TARGET_DATE,
                       max_results |-> max_results.val,
                       log_level |-> environ_get(env.LOG_LEVEL, "INFO"),
                       device_scale_factor |-> device_scale_factor.val]]

LogLevels == {"DEBUG", "INFO", "WARNING", "ERROR", "CRITICAL"}

\* a validation that lets a count of zero pass
validate_zero_allowed(c) ==
    IF c.max_results < 0 THEN "ValueError"
    ELSE IF c.device_scale_factor <= 0 THEN "ValueError"
    ELSE IF c.log_level \notin LogLevels THEN "ValueError"
    ELSE "none"

\* Config.validate: the exception raised, or "none"
validate(c) ==
    IF c.max_results <= 0 THEN "ValueError"
    ELSE IF c.device_scale_factor <= 0 THEN "ValueError"
    ELSE IF c.log_level \notin LogLevels THEN "ValueError"
    ELSE "none"

\* a main that forgets the failed result
exit_status_of_ignoring(result) == 0

\* the status main ends with after run returned: sys.exit(1) for a result
\* without success, the end of main otherwise
exit_status_of(result) ==
    IF result.kind = "result" /\ result.val.success THEN 0 ELSE 1

\* values of MAX_RESULTS
MaxResultsValues == {None, Some(<<"1">>), Some(<<"0">>), Some(<<"-", "1">>), Some(<<"x">>)}

\* values of DEVICE_SCALE_FACTOR
ScaleFactorValues == {None, Some(<<"0">>)}

\* values of LOG_LEVEL
LogLevelValues == {None, Some("CRITICAL"), Some("info"), Some("TRACE")}

InitMain ==
    /\ pc = "from_env"
    /\ current_year = 2025
    /\ ParseIdle
    /\ SelectIdle
    /\ ExcelIdle
    /\ RunIdle
    /\ environ \in [MAX_RESULTS : MaxResultsValues,
                    DEVICE_SCALE_FACTOR : ScaleFactorValues,
                    LOG_LEVEL : LogLevelValues,
                    MESSAGE_ID : {None, Some(9)},
                    TARGET_DATE : {None} \cup {Some(d) : d \in RunTargetDates}]
    /\ config = None
    /\ main_log = <<>>
    /\ exit_status = None
    /\ CleanIdle
    /\ CaptureIdle

\* a startup step of main ends: it goes on, or the except clauses of main
\* end the process with sys.exit(1)
MainStep(step, exc, next) ==
    /\ main_log' = Append(main_log, [step |-> step,
                                     outcome |-> IF exc = "none" THEN "ok" ELSE "raise",
                                     exc |-> exc])
    /\ pc' = IF exc = "none" THEN next ELSE "exited"
    /\ exit_status' = IF exc = "none" THEN exit_status ELSE Some(1)

\* config = Config.from_env()
FromEnv ==
    /\ pc = "from_env"
    /\ IF from_env(environ).kind = "raise"
       THEN /\ MainStep("from_env", from_env(environ).val[1], "validate")
            /\ UNCHANGED config
       ELSE /\ MainStep("from_env", "none", "validate")
            /\ config' = from_env(environ)
    /\ UNCHANGED <<current_year, parse_vars, select_vars, excel_vars, run_vars, environ,
                   clean_vars,
                   capture_vars>>

\* config.validate()
Validate ==
    /\ pc = "validate"
    /\ MainStep("validate", validate(config.val), "setup_logger")
    /\ UNCHANGED <<current_year, parse_vars, select_vars, excel_vars, run_vars, environ,
                   config, clean_vars,
                   capture_vars>>

\* setup_logger: the log file may not open
SetupLogger ==
    /\ pc = "setup_logger"
    /\ \E exc \in {"none", "OSError"} : MainStep("setup_logger", exc, "construct")
    /\ UNCHANGED <<current_year, parse_vars, select_vars, excel_vars, run_vars, environ,
                   config, clean_vars,
                   capture_vars>>

\* GmailTableExtractor(config), whose ensure_directories may fail, and the
\* call of run with config.target_date
ConstructExtractor ==
    /\ pc = "construct"
    /\ \E exc \in {"none", "OSError"} :
          /\ MainStep("construct", exc, "authenticate")
          /\ IF exc = "none"
             THEN /\ message_id' = config.val.message_id
                  /\ target_date' = config.val.target_date
             ELSE UNCHANGED <<message_id, target_date>>
    /\ UNCHANGED <<current_year, parse_vars, messages_data, last_call, selected,
                   first_selected, excel_vars, email_extractor, gemini_client,
                   email_data, file_paths, stage_log, run_result, environ, config,
                   clean_vars,
                   capture_vars>>

\* run returned: the result decides the status
ExitMain ==
    /\ pc = "returned"
    /\ pc' = "exited"
    /\ exit_status' = Some(exit_status_of(run_result))
    /\ UNCHANGED <<current_year, parse_vars, select_vars, excel_vars, run_vars, environ,
                   config, main_log, clean_vars,
                   capture_vars>>

NextMain ==
    \/ FromEnv
    \/ Validate
    \/ SetupLogger
    \/ ConstructExtractor
    \/ NextRun
    \/ ExitMain

SpecMain == InitMain /\ [][NextMain]_vars

Exited == pc = "exited"

StartupFailed == main_log # <<>> /\ main_log[Len(main_log)].outcome = "raise"

\* C21: a failure of a startup step ends the process with a non-zero status
\* and without any step of the workflow having run; a run whose result has
\* success false ends with a non-zero status; status zero is reached only
\* through a successful run.
C21_ExitStatus ==
    /\ StartupFailed =>
          /\ Exited
          /\ exit_status # None /\ exit_status.val # 0
          /\ stage_log = <<>>
          /\ run_result = Unset
    /\ (Exited /\ run_result.kind = "result" /\ ~run_result.val.success) =>
          exit_status # None /\ exit_status.val # 0
    /\ (exit_status # None /\ exit_status.val = 0) =>
          /\ Exited
          /\ run_result.kind = "result" /\ run_result.val.success
    /\ Exited => exit_status # None

\* the workflow failed at the image model and the process ended with 1
C21_Witness ==
    /\ Exited
    /\ ~StartupFailed
    /\ stage_log # <<>>
    /\ LastStep.step = "table_image_to_json"
    /\ LastStep.outcome = "raise"
    /\ exit_status = Some(1)

ConfigAccepted(c) ==
    c.max_results > 0 /\ c.device_scale_factor > 0 /\ c.log_level \in LogLevels

\* C24: validate lets a configuration pass exactly when max_results > 0,
\* device_scale_factor > 0 and log_level is one of the five level names, and
\* raises ValueError otherwise; no step of the workflow runs on a
\* configuration validate has not accepted.
C24_ValidateAccepts ==
    /\ \A i \in 1..Len(main_log) :
          main_log[i].step = "validate" =>
             /\ ConfigAccepted(config.val) <=> main_log[i].outcome = "ok"
             /\ ~ConfigAccepted(config.val) <=> main_log[i].exc = "ValueError"
    /\ stage_log # <<>> =>
          /\ Len(main_log) >= 2
          /\ main_log[2].step = "validate" /\ main_log[2].outcome = "ok"
          /\ ConfigAccepted(config.val)

\* MAX_RESULTS=0 is read without error and rejected by validate
C24_Witness ==
    /\ Exited
    /\ environ.MAX_RESULTS = Some(<<"0">>)
    /\ Len(main_log) = 2
    /\ main_log[2] = [step |-> "validate", outcome |-> "raise", exc |-> "ValueError"]
    /\ stage_log = <<>>

----------------------------------------------------------------------------
(* clean_filename: a name is assembled, then cleaned once *)

\* unsafe_chars, in the order the loop visits them
UnsafeChars == <<"<", ">", ":", "\"", "/", "\\", "|", "?", "*">>

\* str.replace(c, '_') for a single character c
replace_char(s, c) == [i \in 1..Len(s) |-> IF s[i] = c THEN "_" ELSE s[i]]

RECURSIVE replace_first_chars(_, _)
\* the for loop over the first n unsafe characters
replace_first_chars(s, n) ==
    IF n = 0 THEN s
    ELSE replace_char(replace_first_chars(s, n - 1), UnsafeChars[n])

\* a loop that stops one character early
replace_unsafe_but_last(s) == replace_first_chars(s, Len(UnsafeChars) - 1)

\* the for loop of clean_filename
replace_unsafe(s) == replace_first_chars(s, Len(UnsafeChars))

RECURSIVE replace_double(_)
\* str.replace('__', '_'): occurrences taken from the left, not overlapping
replace_double(s) ==
    IF Len(s) < 2 THEN s
    ELSE IF s[1] = "_" /\ s[2] = "_"
         THEN <<"_">> \o replace_double(SubSeq(s, 3, Len(s)))
    ELSE <<s[1]>> \o replace_double(Tail(s))

\* '__' in s
has_double(s) == \E i \in 1..(Len(s) - 1) : s[i] = "_" /\ s[i + 1] = "_"

RECURSIVE collapse_underscores(_)
\* the while loop of clean_filename
collapse_underscores(s) ==
    IF has_double(s) THEN collapse_underscores(replace_double(s)) ELSE s

RECURSIVE strip_underscores(_)
\* str.strip('_')
strip_underscores(s) ==
    IF s = <<>> THEN s
    ELSE IF Head(s) = "_" THEN strip_underscores(Tail(s))
    ELSE IF s[Len(s)] = "_" THEN strip_underscores(SubSeq(s, 1, Len(s) - 1))
    ELSE s

clean_filename(s) == strip_underscores(collapse_underscores(replace_unsafe(s)))

\* characters file names are assembled from
NameChars == {"a", "b", "_", "<", "\\", "*"}

InitClean ==
    /\ pc = "build"
    /\ current_year = 2025
    /\ ParseIdle
    /\ SelectIdle
    /\ ExcelIdle
    /\ RunIdle
    /\ MainIdle
    /\ CleanIdle
    /\ CaptureIdle

AppendChar(c) ==
    /\ pc = "build"
    /\ Len(filename) < MaxName
    /\ filename' = Append(filename, c)
    /\ UNCHANGED <<pc, current_year, parse_vars, select_vars, excel_vars, run_vars,
                   main_vars, cleaned, capture_vars>>

CleanFilename ==
    /\ pc = "build"
    /\ pc' = "done"
    /\ cleaned' = Some(clean_filename(filename))
    /\ UNCHANGED <<current_year, parse_vars, select_vars, excel_vars, run_vars,
                   main_vars, filename, capture_vars>>

NextClean ==
    \/ \E c \in NameChars : AppendChar(c)
    \/ CleanFilename

SpecClean == InitClean /\ [][NextClean]_vars

IsUnsafe(c) == \E i \in 1..Len(UnsafeChars) : UnsafeChars[i] = c

IsKept(c) == ~IsUnsafe(c) /\ c # "_"

NotUnderscore(c) == c # "_"

\* C25: the cleaned name holds none of the characters < > : " / \ | ? * and
\* the characters of the input that are neither unsafe nor underscores
\* appear in it, all of them and in their order, with only underscores between.
C25_CleanFilename ==
    cleaned # Unset =>
        /\ \A i \in 1..Len(cleaned.val) : ~IsUnsafe(cleaned.val[i])
        /\ SelectSeq(cleaned.val, NotUnderscore) = SelectSeq(filename, IsKept)

\* "a<*b": both unsafe characters become one underscore between a and b
C25_Witness ==
    /\ filename = <<"a", "<", "*", "b">>
    /\ cleaned = Some(<<"a", "_", "b">>)

----------------------------------------------------------------------------
(* Scoped resources: the browser session of capture_html_to_png and the
   ExcelWriter of json_tables_to_excel, with a failure at any call *)

\* the calls inside the with block of capture_html_to_png, in order
CaptureSteps == <<"launch", "new_context", "new_page", "goto", "screenshot", "close">>

\* where capture_html_to_png may fail: nowhere, at the check of the HTML file,
\* when the session is started, or at one of the calls of the with block
CaptureFaults ==
    {"none", "exists", "sync_playwright"} \cup
        {CaptureSteps[i] : i \in 1..Len(CaptureSteps)}

RECURSIVE after_steps(_)
\* the session and the browser once the first n calls of the with block returned
after_steps(n) ==
    IF n = 0 THEN [playwright |-> "started", browser |-> "none"]
    ELSE IF CaptureSteps[n] = "launch"
         THEN [after_steps(n - 1) EXCEPT !.browser = "launched"]
    ELSE IF CaptureSteps[n] = "close"
         THEN [after_steps(n - 1) EXCEPT !.browser = "closed"]
    ELSE after_steps(n - 1)

\* the session is stopped, and a browser it still runs ends with it
stop_playwright(held) ==
    [playwright |-> "stopped",
     browser |-> IF held.browser = "launched" THEN "ended" ELSE held.browser]

\* a block whose resource is released only when its body returns
with_exit_on_return(held, released, raised) == IF raised THEN held ELSE released

\* leaving a with block: the resource is released whether the body returned
\* or raised
with_exit(held, released, raised) == released

\* the calls of the with block that returned before the one that raised
steps_before(fault_at) ==
    IF fault_at = "none" THEN Len(CaptureSteps)
    ELSE (CHOOSE i \in 1..Len(CaptureSteps) : CaptureSteps[i] = fault_at) - 1

\* capture_html_to_png: whatever is raised in the try block leaves as
\* FileProcessingError
capture_html_to_png(fault_at) ==
    IF fault_at \in {"exists", "sync_playwright"}
    THEN [result |-> reraised(fault_at), playwright |-> "none", browser |-> "none"]
    ELSE LET held == after_steps(steps_before(fault_at))
             left == with_exit(held, stop_playwright(held), fault_at # "none")
         IN  [result |-> IF fault_at = "none" THEN Some("png")
                         ELSE reraised(fault_at),
              playwright |-> left.playwright,
              browser |-> left.browser]

\* the loop over the tables with the write of table fault_at raising
\* (0: none raises), inside the with block of the writer
write_tables_at(tables, fault_at) ==
    [result |-> IF fault_at = 0 THEN [kind |-> "ok", val |-> <<>>]
                ELSE reraised("Exception"),
     writer |-> with_exit("open", "closed", fault_at # 0),
     sheets |-> [i \in 1..(IF fault_at = 0 THEN Len(tables) ELSE fault_at - 1) |->
                    table_sheet(i, tables[i])],
     col_counts |-> [i \in 1..(IF fault_at = 0 THEN Len(tables) ELSE fault_at) |->
                        column_count(tables[i].headers, tables[i].rows)]]

\* json_tables_to_excel with failures: the document is rejected, or the
\* writer cannot be opened, or a table write raises
json_tables_to_excel_at(d, opens, fault_at) ==
    IF tables_rejected(d) THEN json_tables_to_excel(d)
    ELSE IF ~opens
         THEN [result |-> reraised("OSError"), writer |-> "none",
               sheets |-> <<>>, col_counts |-> <<>>]
    ELSE write_tables_at(tables_or_empty(d).val, fault_at)

CaptureHtmlToPngAt(fault_at) ==
    /\ pc = "build"
    /\ capture_result = Unset
    /\ capture_result' = capture_html_to_png(fault_at).result
    /\ playwright' = capture_html_to_png(fault_at).playwright
    /\ browser' = capture_html_to_png(fault_at).browser
    /\ UNCHANGED <<pc, current_year, parse_vars, select_vars, excel_vars, run_vars,
                   main_vars, clean_vars>>

JsonTablesToExcelAt(opens, fault_at) ==
    /\ pc = "build"
    /\ fault_at <= Len(tables_or_empty(data_tables).val)
    /\ pc' = "done"
    /\ excel_result' = json_tables_to_excel_at(data_tables, opens, fault_at).result
    /\ writer' = json_tables_to_excel_at(data_tables, opens, fault_at).writer
    /\ sheets' = json_tables_to_excel_at(data_tables, opens, fault_at).sheets
    /\ col_counts' = json_tables_to_excel_at(data_tables, opens, fault_at).col_counts
    /\ UNCHANGED <<current_year, parse_vars, select_vars, data_tables, run_vars,
                   main_vars, clean_vars, capture_vars>>

NextScoped ==
    \/ \E h \in HeaderChoices : AddTable(h)
    \/ \E r \in RowChoices : AddRow(r)
    \/ \E f \in CaptureFaults : CaptureHtmlToPngAt(f)
    \/ \E opens \in BOOLEAN, k \in 0..MaxTables : JsonTablesToExcelAt(opens, k)

SpecScoped == InitExcel /\ [][NextScoped]_vars

\* C27: once capture_html_to_png has returned or raised, the browser session
\* is no longer held (the session is not started and no browser is running),
\* and once json_tables_to_excel has returned or raised, the spreadsheet
\* writer is not open, whichever call inside them failed.
C27_ScopedResourcesReleased ==
    /\ capture_result # Unset => playwright # "started" /\ browser # "launched"
    /\ excel_result # Unset => writer # "open"

\* a call after the launch raised, so browser.close() was not reached, and a
\* table write raised after the first table was written
C27_Witness ==
    /\ capture_result.kind = "raise"
    /\ playwright = "stopped"
    /\ browser = "ended"
    /\ excel_result.kind = "raise"
    /\ writer = "closed"
    /\ Len(sheets) = 1
    /\ Len(data_tables.val) = 2

====
